---- MODULE Spec2Model ----
(***************************************************************************)
(* Model of "3. Tracker/visualize.py": visualize_tracking_results reads a  *)
(* MOT-format tracking log and a directory of numbered JPG images, draws   *)
(* the boxes of each frame and writes the frames to a video.               *)
(*                                                                         *)
(* The inputs (the log file, the image directory, which images decode) are *)
(* drawn in Init. One action models one numbered section of the function.  *)
(* File names are sequences of one-character strings so that endswith,     *)
(* splitext and int() are computed, not assumed.                           *)
(***************************************************************************)
EXTENDS Integers, Sequences, FiniteSets, TLC

VARIABLES
    txt,        \* the log at txt_path: [exists, lines]
    dir,        \* the directory at img_dir: [exists, files]
    corrupt,    \* the file names cv2.imread returns None for
    pc,         \* position of the run
    df,         \* the DataFrame read from the log (sequence of rows)
    colors,     \* dict id -> color
    img_files,  \* the sorted list of .jpg names
    frame_idx,  \* loop counter of enumerate(img_files, 1); 0 before the loop
    writer,     \* "none", "open" or "released"
    video,      \* the frames handed to writer.write, in order
    outfile,    \* the artifact at output_path: "absent", "empty", "nonempty"
    msg         \* what the run printed last: a message kind, or the exception

vars == <<txt, dir, corrupt, pc, df, colors, img_files, frame_idx, writer,
          video, outfile, msg>>

inputs == <<txt, dir, corrupt>>

----------------------------------------------------------------------------
(* Bounds of the model *)

\* The longest log, in lines, and the largest directory, in files.
MaxRows == 2
MaxFiles == 3

----------------------------------------------------------------------------
(* Generic helpers *)

RECURSIVE SeqsUpTo(_, _)
SeqsUpTo(S, n) ==
    IF n = 0 THEN {<<>>}
    ELSE LET shorter == SeqsUpTo(S, n - 1)
         IN  shorter \cup {Append(s, x) : s \in {t \in shorter : Len(t) = n - 1}, x \in S}

Range(s) == {s[i] : i \in 1..Len(s)}

\* All orders in which a set can be enumerated.
Perms(S) == {s \in [1..Cardinality(S) -> S] : Range(s) = S}

----------------------------------------------------------------------------
(* File names *)

Digits == {"0", "1", "2", "3", "4", "5", "6", "7", "8", "9"}

DigitVal(c) ==
    CASE c = "0" -> 0 [] c = "1" -> 1 [] c = "2" -> 2 [] c = "3" -> 3
      [] c = "4" -> 4 [] c = "5" -> 5 [] c = "6" -> 6 [] c = "7" -> 7
      [] c = "8" -> 8 [] c = "9" -> 9

JpgExt == <<".", "j", "p", "g">>

\* str.endswith
EndsWith(name, suffix) ==
    /\ Len(name) >= Len(suffix)
    /\ SubSeq(name, Len(name) - Len(suffix) + 1, Len(name)) = suffix

\* os.path.splitext(name)[0]: the name up to its last dot; a name whose only
\* dots are leading has no extension.
SplitExtRoot(name) ==
    LET dots == {i \in 1..Len(name) : name[i] = "."}
        last == CHOOSE i \in dots : \A j \in dots : j <= i
        lead == \A j \in 1..(last - 1) : name[j] = "."
    IN  IF dots = {} THEN name
        ELSE IF lead THEN name
        ELSE SubSeq(name, 1, last - 1)

\* int(s) succeeds on a non-empty string of decimal digits (and, of the
\* characters of FileUniverse, on no other string).
IsIntLiteral(s) == Len(s) > 0 /\ \A i \in 1..Len(s) : s[i] \in Digits

RECURSIVE ParseInt(_)
ParseInt(s) ==
    IF Len(s) = 0 THEN 0
    ELSE 10 * ParseInt(SubSeq(s, 1, Len(s) - 1)) + DigitVal(s[Len(s)])

\* key=lambda x: int(os.path.splitext(x)[0])
SortKey(name) == ParseInt(SplitExtRoot(name))

KeyDefined(name) == IsIntLiteral(SplitExtRoot(name))

\* Character codes of the characters of the file names.
CharCode(c) ==
    CASE c \in Digits -> 48 + DigitVal(c)
      [] c = "." -> 46 [] c = "g" -> 103 [] c = "j" -> 106
      [] c = "n" -> 110 [] c = "p" -> 112 [] c = "x" -> 120

\* a <= b as Python compares strings.
RECURSIVE LexLeq(_, _)
LexLeq(a, b) ==
    IF Len(a) = 0 THEN TRUE
    ELSE IF Len(b) = 0 THEN FALSE
    ELSE IF a[1] # b[1] THEN CharCode(a[1]) < CharCode(b[1])
    ELSE LexLeq(Tail(a), Tail(b))

\* Faulty variant of InsertByKey: sorted(list) without the key, by name.
RECURSIVE InsertByName(_, _)
InsertByName(sorted, name) ==
    IF Len(sorted) = 0 THEN <<name>>
    ELSE IF LexLeq(sorted[Len(sorted)], name) THEN Append(sorted, name)
    ELSE Append(InsertByName(SubSeq(sorted, 1, Len(sorted) - 1), name), sorted[Len(sorted)])

\* sorted(list, key=...): stable, ascending by key.
RECURSIVE InsertByKey(_, _)
InsertByKey(sorted, name) ==
    IF Len(sorted) = 0 THEN <<name>>
    ELSE IF SortKey(sorted[Len(sorted)]) <= SortKey(name) THEN Append(sorted, name)
    ELSE Append(InsertByKey(SubSeq(sorted, 1, Len(sorted) - 1), name), sorted[Len(sorted)])

RECURSIVE SortedByKey(_)
SortedByKey(list) ==
    IF Len(list) = 0 THEN <<>>
    ELSE InsertByKey(SortedByKey(SubSeq(list, 1, Len(list) - 1)), list[Len(list)])

\* [f for f in os.listdir(img_dir) if f.endswith('.jpg')]
IsJpg(name) == EndsWith(name, JpgExt)

JpgOnly(listing) == SelectSeq(listing, IsJpg)

\* The lists sorted(...) can return for a directory: os.listdir gives the
\* names in any order, and the stable sort keeps that order among equal keys.
SortedListings(files) == {SortedByKey(JpgOnly(listing)) : listing \in Perms(files)}

----------------------------------------------------------------------------
(* The inputs *)

\* The column names given to read_csv.
columns == <<"frame", "id", "bb_left", "bb_top", "bb_width", "bb_height",
             "conf", "x", "y", "z">>

\* The well-formed lines the logs are drawn from (ten comma-separated
\* numbers: frame, id, bb_left, bb_top, bb_width, bb_height, conf, x, y, z):
\* two ids, one of them in two frames, two records in one frame, and a frame
\* number past a two-image directory.
GoodLines ==
    { <<1, 1, 100, 200, 50, 80, 1, 0, 0, 0>>,
      <<2, 1, 104, 202, 50, 80, 1, 0, 0, 0>>,
      <<2, 2, 10, 20, 30, 40, 1, 0, 0, 0>>,
      <<3, 2, 12, 21, 30, 40, 1, 0, 0, 0>> }

\* A line with one field more than the columns.
LongLine == <<1, 1, 100, 200, 50, 80, 1, 0, 0, 0, 0>>

\* The logs: a missing file, an empty file, or lines of which the first is
\* well formed.
LogUniverse ==
    {[exists |-> FALSE, lines |-> <<>>]} \cup
    {[exists |-> TRUE, lines |-> ls] :
        ls \in {s \in SeqsUpTo(GoodLines \cup {LongLine}, MaxRows) :
                    Len(s) > 0 => s[1] \in GoodLines}}

FileUniverse ==
    { <<"1">> \o JpgExt, <<"0", "1">> \o JpgExt, <<"2">> \o JpgExt,
      <<"1", "0">> \o JpgExt, <<"x">> \o JpgExt, <<"2", ".", "p", "n", "g">> }

DirUniverse ==
    {[exists |-> FALSE, files |-> {}]} \cup
    {[exists |-> TRUE, files |-> fs] :
        fs \in {s \in SUBSET FileUniverse : Cardinality(s) <= MaxFiles}}

----------------------------------------------------------------------------
(* Section 1: pd.read_csv(txt_path, header=None, names=columns) *)

\* Faulty variant of ReadCsvOutcome: an empty file gives an empty DataFrame.
ReadCsvOutcomeNoEmptyError(file) ==
    IF ~file.exists THEN "FileNotFoundError"
    ELSE IF \E i \in 2..Len(file.lines) : Len(file.lines[i]) > Len(file.lines[1])
         THEN "ParserError"
    ELSE "ok"

\* The outcome of read_csv: the exception it raises, or "ok".
ReadCsvOutcome(file) ==
    IF ~file.exists THEN "FileNotFoundError"
    ELSE IF Len(file.lines) = 0 THEN "EmptyDataError"
    ELSE IF \E i \in 2..Len(file.lines) : Len(file.lines[i]) > Len(file.lines[1])
         THEN "ParserError"
    ELSE "ok"

\* One row of the DataFrame: the fields of a line under the column names.
RowOf(line) ==
    [c \in Range(columns) |-> line[CHOOSE k \in 1..Len(columns) : columns[k] = c]]

ReadCsv(file) == [i \in 1..Len(file.lines) |-> RowOf(file.lines[i])]

\* The exceptions the try block around read_csv handles.
HandledOnLoad == {"EmptyDataError", "FileNotFoundError"}

----------------------------------------------------------------------------
(* Section 2: the color table *)

\* np.random.randint(0, 255) draws from 0..254.
RandHigh == 255

\* The (0, 255, 0) default of colors.get.
FallbackColor == <<0, 255, 0>>

\* A sample of the triples three randint(0, 255) draws can give.
RandomColors == {<<0, 0, 0>>, <<RandHigh - 1, RandHigh - 1, RandHigh - 1>>}

\* Faulty variant of UniqueIds: only the id of the first row.
UniqueIdsFirstRow(frame) == IF Len(frame) = 0 THEN {} ELSE {frame[1].id}

\* df['id'].unique(), as int(tid)
UniqueIds(frame) == {frame[i].id : i \in 1..Len(frame)}

\* colors.get(track_id, (0, 255, 0))
ColorGet(table, track_id) ==
    IF track_id \in DOMAIN table THEN table[track_id] ELSE FallbackColor

----------------------------------------------------------------------------
(* Section 4: drawing one frame *)

\* Faulty variant of DetectionsInFrame: the loop counter taken as 0-based.
DetectionsInFrameZeroBased(frame, idx) ==
    LET Matches(row) == row.frame = idx - 1
    IN  SelectSeq(frame, Matches)

\* df[df['frame'] == frame_idx]
DetectionsInFrame(frame, idx) ==
    LET Matches(row) == row.frame = idx
    IN  SelectSeq(frame, Matches)

\* Faulty variant of DrawRow: the label shows the frame number.
DrawRowFrameLabel(row, table) ==
    LET x == row.bb_left
        y == row.bb_top
    IN  [pt1 |-> <<x, y>>, pt2 |-> <<x + row.bb_width, y + row.bb_height>>,
         color |-> ColorGet(table, row.id), label |-> <<"ID: ", row.frame>>,
         org |-> <<x, y - 5>>]

\* The rectangle and the label drawn for one row.
DrawRow(row, table) ==
    LET track_id == row.id
        x == row.bb_left
        y == row.bb_top
        w == row.bb_width
        h == row.bb_height
        color == ColorGet(table, track_id)
    IN  [pt1 |-> <<x, y>>, pt2 |-> <<x + w, y + h>>, color |-> color,
         label |-> <<"ID: ", track_id>>, org |-> <<x, y - 5>>]

\* Faulty variant of Annotate: the colors are drawn again for every frame, so an
\* even frame gets the other color.
AnnotateRecolored(idx, frame, table) ==
    LET rows == DetectionsInFrame(frame, idx)
        Other(c) == CHOOSE d \in RandomColors : d # c
    IN  [k \in 1..Len(rows) |->
            IF idx % 2 = 0
            THEN [DrawRow(rows[k], table) EXCEPT !.color = Other(@)]
            ELSE DrawRow(rows[k], table)]

\* The boxes drawn on the image at position idx, in iterrows order.
Annotate(idx, frame, table) ==
    LET rows == DetectionsInFrame(frame, idx)
    IN  [k \in 1..Len(rows) |-> DrawRow(rows[k], table)]

\* cv2.imread(path) is not None
Decodes(name) == name \notin corrupt

\* Faulty variant of WriteOrSkip: no continue, the undecodable image is written too.
WriteAlways(written, img_file, boxes) ==
    Append(written, [img |-> img_file, boxes |-> boxes])

\* The body of one loop iteration: an image that does not decode is skipped
\* (continue); any other is annotated and handed to writer.write.
WriteOrSkip(written, img_file, boxes) ==
    IF ~Decodes(img_file) THEN written
    ELSE Append(written, [img |-> img_file, boxes |-> boxes])

----------------------------------------------------------------------------
(* The run *)

Init ==
    /\ txt \in LogUniverse
    /\ dir \in DirUniverse
    /\ corrupt \in SUBSET {f \in dir.files : IsJpg(f)}
    /\ pc = "Idle"
    /\ df = <<>>
    /\ colors = <<>>
    /\ img_files = <<>>
    /\ frame_idx = 0
    /\ writer = "none"
    /\ video = <<>>
    /\ outfile = "absent"
    /\ msg = "none"

\* __main__: parse the arguments and call visualize_tracking_results.
Start ==
    /\ pc = "Idle"
    /\ pc' = "Loading"
    /\ UNCHANGED <<inputs, df, colors, img_files, frame_idx, writer, video,
                   outfile, msg>>

\* Section 1: read the log; the two handled exceptions print and return,
\* any other propagates out of the function.
ReadLog ==
    /\ pc = "Loading"
    /\ LET outcome == ReadCsvOutcome(txt)
       IN  IF outcome = "ok"
           THEN /\ df' = ReadCsv(txt)
                /\ pc' = "ColorAssignment"
                /\ msg' = msg
           ELSE IF outcome \in HandledOnLoad
           THEN /\ df' = df
                /\ pc' = "Aborted"
                /\ msg' = outcome
           ELSE /\ df' = df
                /\ pc' = "Crashed"
                /\ msg' = outcome
    /\ UNCHANGED <<inputs, colors, img_files, frame_idx, writer, video, outfile>>

\* Section 2: one random color per distinct id.
AssignColors ==
    /\ pc = "ColorAssignment"
    /\ colors' \in [UniqueIds(df) -> RandomColors]
    /\ pc' = "Listing"
    /\ UNCHANGED <<inputs, df, img_files, frame_idx, writer, video, outfile, msg>>

\* Section 3, first part: list the directory, keep the .jpg names and sort
\* them by the integer value of the stem.
ListImages ==
    /\ pc = "Listing"
    /\ IF ~dir.exists
       THEN /\ pc' = "Aborted"
            /\ msg' = "FileNotFoundError"
            /\ img_files' = img_files
       ELSE IF \E f \in dir.files : IsJpg(f) /\ ~KeyDefined(f)
       THEN /\ pc' = "Crashed"
            /\ msg' = "ValueError"
            /\ img_files' = img_files
       ELSE /\ img_files' \in SortedListings(dir.files)
            /\ IF Len(img_files') = 0
               THEN pc' = "Aborted" /\ msg' = "NoJpg"
               ELSE pc' = "FirstImage" /\ msg' = msg
    /\ UNCHANGED <<inputs, df, colors, frame_idx, writer, video, outfile>>

\* Section 3, second part: the first image gives the video size.
ReadFirstImage ==
    /\ pc = "FirstImage"
    /\ IF Decodes(img_files[1])
       THEN pc' = "OpenWriter" /\ msg' = msg
       ELSE pc' = "Aborted" /\ msg' = "FirstImageUnreadable"
    /\ UNCHANGED <<inputs, df, colors, img_files, frame_idx, writer, video, outfile>>

\* Section 3, third part: cv2.VideoWriter(output_path, ...). The encoder
\* creates the file or fails to.
OpenWriter ==
    /\ pc = "OpenWriter"
    /\ writer' = "open"
    /\ outfile' \in {"absent", "empty"}
    /\ pc' = "Rendering"
    /\ UNCHANGED <<inputs, df, colors, img_files, frame_idx, video, msg>>

\* Section 4: one iteration of the loop over img_files.
RenderFrame ==
    /\ pc = "Rendering"
    /\ frame_idx < Len(img_files)
    /\ frame_idx' = frame_idx + 1
    /\ LET img_file == img_files[frame_idx']
       IN  /\ video' = WriteOrSkip(video, img_file, Annotate(frame_idx', df, colors))
           /\ msg' = IF ~Decodes(img_file) THEN "SkipWarning" ELSE msg
    /\ UNCHANGED <<inputs, pc, df, colors, img_files, writer, outfile>>

\* Faulty variant of Release: release() inside the loop body.
ReleaseInLoop ==
    /\ pc = "Rendering"
    /\ frame_idx >= 1
    /\ writer' = "released"
    /\ outfile' \in IF outfile = "absent" THEN {"absent"} ELSE {"empty", "nonempty"}
    /\ pc' = "Closing"
    /\ UNCHANGED <<inputs, df, colors, img_files, frame_idx, video, msg>>

\* Section 5: writer.release() after the loop.
Release ==
    /\ pc = "Rendering"
    /\ frame_idx = Len(img_files)
    /\ writer' = "released"
    /\ outfile' \in IF outfile = "absent" THEN {"absent"} ELSE {"empty", "nonempty"}
    /\ pc' = "Closing"
    /\ UNCHANGED <<inputs, df, colors, img_files, frame_idx, video, msg>>

\* Faulty variant of StatusOf: a size of 0 bytes or more counts as success.
StatusOfAnySize(artifact) ==
    IF artifact # "absent" THEN "Success" ELSE "MissingOutput"

\* The status section 6 prints for the artifact.
StatusOf(artifact) ==
    IF artifact # "absent"
    THEN IF artifact = "nonempty" THEN "Success" ELSE "EmptyOutput"
    ELSE "MissingOutput"

\* Section 6: check the file at output_path and report.
Report ==
    /\ pc = "Closing"
    /\ pc' = StatusOf(outfile)
    /\ msg' = StatusOf(outfile)
    /\ UNCHANGED <<inputs, df, colors, img_files, frame_idx, writer, video, outfile>>

Next ==
    \/ Start
    \/ ReadLog
    \/ AssignColors
    \/ ListImages
    \/ ReadFirstImage
    \/ OpenWriter
    \/ RenderFrame
    \/ Release
    \/ Report

Spec == Init /\ [][Next]_vars

----------------------------------------------------------------------------
(* Vocabulary of the properties, stated on the inputs and the output *)

Statuses == {"Success", "EmptyOutput", "MissingOutput"}

\* The 1-based position of an image in the sorted list.
PosOf(name) == CHOOSE f \in 1..Len(img_files) : img_files[f] = name

\* How many images at positions before f do not decode.
SkippedBefore(f) == Cardinality({j \in 1..(f - 1) : img_files[j] \in corrupt})

\* The line numbers of the log whose frame field is f.
LinesOfFrame(f) == {i \in 1..Len(txt.lines) : txt.lines[i][1] = f}

\* The n-th smallest member of a set of numbers.
NthOf(S, n) == CHOOSE i \in S : Cardinality({h \in S : h < i}) = n - 1

\* A drawn box is the box of a log line: corners and label.
BoxOfLine(box, line) ==
    /\ box.pt1 = <<line[3], line[4]>>
    /\ box.pt2 = <<line[3] + line[5], line[4] + line[6]>>
    /\ box.label = <<"ID: ", line[2]>>

\* The decimal numeral of a natural number.
RECURSIVE Numeral(_)
Numeral(n) ==
    LET d(k) == CHOOSE c \in Digits : DigitVal(c) = k
    IN  IF n < 10 THEN <<d(n)>> ELSE Append(Numeral(n \div 10), d(n % 10))

\* The .jpg names of the directory.
JpgsOfDir == {f \in dir.files : EndsWith(f, JpgExt)}

\* All boxes drawn so far, as (frame number in the video, box number) pairs.
Drawn == UNION {{<<k, j>> : j \in 1..Len(video[k].boxes)} : k \in 1..Len(video)}

----------------------------------------------------------------------------
(* C1 *)

\* C1: the frame written for the image at sorted position f carries exactly
\* the boxes of the log lines whose frame field is f, one per line, each from
\* (bb_left, bb_top) to (bb_left + bb_width, bb_top + bb_height) and labelled
\* with the line's id; every decodable image the loop has passed has its
\* frame, and positions count the skipped images too.
C1_BoxesMatchSortedPosition ==
    /\ \A k \in 1..Len(video) :
          LET f == PosOf(video[k].img)
              boxes == video[k].boxes
          IN  /\ video[k].img \in Range(img_files)
              /\ video[k].img \notin corrupt
              /\ Len(boxes) = Cardinality(LinesOfFrame(f))
              /\ \A j \in 1..Len(boxes) :
                    BoxOfLine(boxes[j], txt.lines[NthOf(LinesOfFrame(f), j)])
    /\ \A f \in 1..frame_idx :
          img_files[f] \notin corrupt => \E k \in 1..Len(video) : video[k].img = img_files[f]

\* The image at position 3, whose stem is not 3, written as second frame
\* after a skipped image, with a box on it.
C1_Witness ==
    \E k \in 1..Len(video) :
        /\ PosOf(video[k].img) = 3
        /\ k = 2
        /\ SortKey(video[k].img) # 3
        /\ Len(video[k].boxes) >= 1

----------------------------------------------------------------------------
(* C2 *)

----------------------------------------------------------------------------
(* C3 *)

----------------------------------------------------------------------------
(* C4 *)

\* C4: any two boxes drawn with the same id, in whatever frames, have the
\* same color, which is the color the table still holds for that id.
C4_SameIdSameColor ==
    \A a \in Drawn, b \in Drawn :
        LET boxA == video[a[1]].boxes[a[2]]
            boxB == video[b[1]].boxes[b[2]]
        IN  /\ boxA.label[2] = boxB.label[2] => boxA.color = boxB.color
            /\ boxA.label[2] \in DOMAIN colors => boxA.color = colors[boxA.label[2]]

\* The same id drawn in two different frames.
C4_Witness ==
    \E a \in Drawn, b \in Drawn :
        /\ a[1] # b[1]
        /\ video[a[1]].boxes[a[2]].label[2] = video[b[1]].boxes[b[2]].label[2]

----------------------------------------------------------------------------
(* C5 *)

\* The input errors of C5, read off the inputs.
InputError ==
    \/ ~txt.exists
    \/ Len(txt.lines) = 0
    \/ ~dir.exists
    \/ JpgsOfDir = {}
    \/ \E f \in JpgsOfDir : ~IsIntLiteral(SubSeq(f, 1, Len(f) - Len(JpgExt)))

\* C5: with a missing or empty log, a missing directory, no .jpg file or a
\* .jpg whose stem is no integer, the run never reaches the opening of the
\* writer: no output file, no frame.
C5_InputErrorsBeforeOutput ==
    InputError =>
        /\ pc \in {"Idle", "Loading", "ColorAssignment", "Listing", "Aborted", "Crashed"}
        /\ writer = "none"
        /\ outfile = "absent"
        /\ video = <<>>

\* A directory that holds files but no .jpg, after a log that loaded.
C5_Witness ==
    /\ pc = "Aborted"
    /\ msg = "NoJpg"
    /\ dir.files # {}
    /\ Len(df) > 0
    /\ InputError

----------------------------------------------------------------------------
(* C6 *)

----------------------------------------------------------------------------
(* C7 *)

\* The steps between positions of the run. Listing, FirstImage and
\* OpenWriter are the preparation of section 3, between the color assignment
\* and the loop.
PhaseEdges ==
    { <<"Idle", "Loading">>, <<"Loading", "ColorAssignment">>,
      <<"ColorAssignment", "Listing">>, <<"Listing", "FirstImage">>,
      <<"FirstImage", "OpenWriter">>, <<"OpenWriter", "Rendering">>,
      <<"Rendering", "Rendering">>, <<"Rendering", "Closing">>,
      <<"Closing", "Success">>, <<"Closing", "EmptyOutput">>,
      <<"Closing", "MissingOutput">>,
      <<"Loading", "Aborted">>, <<"Listing", "Aborted">>, <<"FirstImage", "Aborted">>,
      <<"Loading", "Crashed">>, <<"Listing", "Crashed">> }

\* C7: every step follows the phase order; the loop advances one image per
\* step; the writer is released once, after the last image, and nothing is
\* written after; an aborted, crashed or reported run takes no further step.
C7_PhaseOrder ==
    [][ /\ <<pc, pc'>> \in PhaseEdges
        /\ (pc = "Rendering" /\ pc' = "Rendering") =>
              (frame_idx' = frame_idx + 1 /\ frame_idx' <= Len(img_files))
        /\ pc' # "Rendering" => frame_idx' = frame_idx
        /\ (pc = "Rendering" /\ pc' = "Closing") =>
              (frame_idx = Len(img_files) /\ writer = "open" /\ writer' = "released")
        /\ writer' # writer =>
              \/ (pc = "OpenWriter" /\ writer = "none" /\ writer' = "open")
              \/ (pc = "Rendering" /\ pc' = "Closing")
        /\ video' # video => (pc = "Rendering" /\ pc' = "Rendering" /\ writer = "open")
      ]_vars

\* A run of three images that reported success.
C7_Witness ==
    /\ pc = "Success"
    /\ frame_idx = 3
    /\ writer = "released"

----------------------------------------------------------------------------
(* C8 *)

\* C8 as stated: the frames written are in strictly ascending order of the
\* integer value of the stem.
C8_StrictlyAscendingStems ==
    \A k \in 1..(Len(video) - 1) : SortKey(video[k].img) < SortKey(video[k + 1].img)

\* C8 amended: the sorted list holds each .jpg of the directory once, in
\* ascending order of the integer value of the stem; the frames written are
\* images of that list at strictly increasing positions, so in ascending
\* order of the stem's value, and strictly so unless two names of the
\* directory have the same value.
C8_AscendingSubsequence ==
    /\ Len(img_files) > 0 =>
          /\ Range(img_files) = JpgsOfDir
          /\ Len(img_files) = Cardinality(JpgsOfDir)
    /\ \A j \in 1..(Len(img_files) - 1) : SortKey(img_files[j]) <= SortKey(img_files[j + 1])
    /\ \A k \in 1..Len(video) : video[k].img \in Range(img_files)
    /\ \A k \in 1..(Len(video) - 1) :
          /\ PosOf(video[k].img) < PosOf(video[k + 1].img)
          /\ SortKey(video[k].img) <= SortKey(video[k + 1].img)
          /\ \/ SortKey(video[k].img) < SortKey(video[k + 1].img)
             \/ \E f \in JpgsOfDir, g \in JpgsOfDir : f # g /\ SortKey(f) = SortKey(g)

\* 2.jpg written right before 10.jpg.
C8_Witness ==
    \E k \in 1..(Len(video) - 1) :
        /\ video[k].img = <<"2">> \o JpgExt
        /\ video[k + 1].img = <<"1", "0">> \o JpgExt

----------------------------------------------------------------------------
(* C9 *)

\* C9 as stated: no run ends by an exception leaving
\* visualize_tracking_results; every fatal error is printed by the function's
\* own handlers.
C9_FatalErrorsReported ==
    /\ pc # "Crashed"
    /\ msg \notin {"ParserError", "ValueError"}

----------------------------------------------------------------------------
(* C10 *)

\* C10: once the table is built every id of the DataFrame has an entry, and
\* no box is drawn in the fallback color.
C10_FallbackNeverSelected ==
    /\ pc \notin {"Idle", "Loading", "ColorAssignment"} =>
          \A i \in 1..Len(df) : df[i].id \in DOMAIN colors
    /\ \A a \in Drawn : video[a[1]].boxes[a[2]].color # FallbackColor

\* Boxes of two different ids drawn in one run.
C10_Witness ==
    \E a \in Drawn, b \in Drawn :
        video[a[1]].boxes[a[2]].label[2] # video[b[1]].boxes[b[2]].label[2]

====
